---- MODULE Spec2Model ----
(***************************************************************************)
(* Model of translator.py (Mini Language Translator): the language         *)
(* validator, the model resolver, the lru_cache around                     *)
(* _load_model_and_tokenizer and the translate_text facade.                *)
(*                                                                         *)
(* A Python str is a record [tag |-> "str", s |-> <<chars>>], a character  *)
(* being a one-character string; None is [tag |-> "None", s |-> <<>>].     *)
(* The external engine (from_pretrained, tokenizer, generate,              *)
(* batch_decode) is a nondeterministic choice between raising and          *)
(* returning.                                                              *)
(***************************************************************************)
EXTENDS Naturals, Sequences, FiniteSets

VARIABLES
    cache,    \* lru_cache table: sequence of [key, val], least recently used first
    recency,  \* history: the keys now cached, in the order of their last use
    loaded,   \* history: normalized pairs some call has loaded and stored
    fetched,  \* history: every identifier ever passed to from_pretrained
    evicted,  \* history: the keys the last store pushed out of the table
    pc,       \* per caller: where its translate_text call stands
    args,     \* per caller: (text, src_lang, tgt_lang) of its call
    frame,    \* per caller: the locals of the call
    counts,   \* per caller: external calls made by the current call
    result    \* per caller: outcome of its last finished call

vars == <<cache, recency, loaded, fetched, evicted, pc, args, frame, counts, result>>

----------------------------------------------------------------------------
(* Python values *)

PyNone == [tag |-> "None", s |-> <<>>]
Str(chars) == [tag |-> "str", s |-> chars]

Whitespace == {" ", "\t", "\n"}

\* str.lower(), one character
LowerChar(c) ==
    CASE c = "E" -> "e"
      [] c = "N" -> "n"
      [] c = "H" -> "h"
      [] c = "I" -> "i"
      [] c = "F" -> "f"
      [] c = "R" -> "r"
      [] c = "A" -> "a"
      [] OTHER -> c

Lower(chars) == [i \in 1..Len(chars) |-> LowerChar(chars[i])]

RECURSIVE LStrip(_)
LStrip(chars) ==
    IF chars # <<>> /\ Head(chars) \in Whitespace THEN LStrip(Tail(chars)) ELSE chars

RECURSIVE RStrip(_)
RStrip(chars) ==
    IF chars # <<>> /\ chars[Len(chars)] \in Whitespace
    THEN RStrip(SubSeq(chars, 1, Len(chars) - 1))
    ELSE chars

\* str.strip()
Strip(chars) == RStrip(LStrip(chars))

\* "".join(chars): the characters as one TLA+ string
RECURSIVE Join(_)
Join(chars) == IF chars = <<>> THEN "" ELSE Head(chars) \o Join(Tail(chars))

----------------------------------------------------------------------------
(* translator.py *)

SUPPORTED_LANGS == {<<"e", "n">>, <<"h", "i">>}

maxsize == 4

\* variant of NormalizeCode: the code is trimmed and not lowercased
NormalizeCodeNoLower(lang) ==
    Strip(IF lang.tag = "None" \/ lang.s = <<>> THEN <<>> ELSE lang.s)

\* line 67: code = (lang or "").strip().lower()
NormalizeCode(lang) ==
    Lower(Strip(IF lang.tag = "None" \/ lang.s = <<>> THEN <<>> ELSE lang.s))

Returned(v) == [kind |-> "return", val |-> v, exc |-> "", msg |-> ""]
Raised(e, m) == [kind |-> "raise", val |-> PyNone, exc |-> e, msg |-> m]
NoResult == [kind |-> "none", val |-> PyNone, exc |-> "", msg |-> ""]

UnsupportedError == Raised("ValueError", "Unsupported language code")
IdenticalError == Raised("ValueError", "Source and target languages must be different.")

\* _normalize_lang: the code returned, or the ValueError raised
NormalizeLang(lang) ==
    LET code == NormalizeCode(lang)
    IN  IF code \notin SUPPORTED_LANGS THEN UnsupportedError ELSE Returned(Str(code))

\* variant of ModelNameOf: source and target swapped in the template
ModelNameOfSwapped(src, tgt) == "Helsinki-NLP/opus-mt-" \o Join(tgt) \o "-" \o Join(src)

\* line 81: f"Helsinki-NLP/opus-mt-{src}-{tgt}"
ModelNameOf(src, tgt) == "Helsinki-NLP/opus-mt-" \o Join(src) \o "-" \o Join(tgt)

\* variant of GetModelName: the arguments are compared as given, not as normalized
GetModelNameRawCompare(src_lang, tgt_lang) ==
    LET src == NormalizeLang(src_lang)
    IN  IF src.kind = "raise" THEN src
        ELSE LET tgt == NormalizeLang(tgt_lang)
             IN  IF tgt.kind = "raise" THEN tgt
                 ELSE IF src_lang = tgt_lang THEN IdenticalError
                 ELSE Returned(ModelNameOf(src.val.s, tgt.val.s))

\* _get_model_name: the identifier returned, or the ValueError raised
GetModelName(src_lang, tgt_lang) ==
    LET src == NormalizeLang(src_lang)
    IN  IF src.kind = "raise" THEN src
        ELSE LET tgt == NormalizeLang(tgt_lang)
             IN  IF tgt.kind = "raise" THEN tgt
                 ELSE IF src.val = tgt.val THEN IdenticalError
                 ELSE Returned(ModelNameOf(src.val.s, tgt.val.s))

\* variant of BlankText: only "not text"
BlankTextNoStrip(text) == text.tag = "None" \/ text.s = <<>>

\* line 108: not text or not text.strip()
BlankText(text) == text.tag = "None" \/ text.s = <<>> \/ Strip(text.s) = <<>>

----------------------------------------------------------------------------
(* Inputs *)

Threads == {"t1", "t2"}
MainThread == "t1"

Request(text, src_lang, tgt_lang) ==
    [text |-> text, src_lang |-> src_lang, tgt_lang |-> tgt_lang]

BlankTexts == {PyNone, Str(<<>>), Str(<<" ", "\t">>)}
SomeText == Str(<<" ", "a">>)

RawLangs ==
    {PyNone, Str(<<>>), Str(<<"f", "r">>),
     Str(<<" ", "E", "N">>),
     Str(<<"h", "i">>), Str(<<"H", "i", " ">>), Str(<<"\t", "H", "I">>)}

en == Str(<<"e", "n">>)
hi == Str(<<"h", "i">>)

\* any caller of translate_text
Requests ==
    {Request(text, s, g) : text \in BlankTexts, s \in {PyNone, Str(<<"f", "r">>), hi},
                           g \in {hi, Str(<<" ", "E", "N">>)}}
    \cup {Request(SomeText, s, g) : s \in RawLangs, g \in RawLangs}

\* what app.py passes (lines 47-59): the text area's string and one of two directions
AppRequests ==
    {Request(text, d[1], d[2]) :
       text \in {Str(<<>>), Str(<<" ", "\t">>), SomeText}, d \in {<<en, hi>>, <<hi, en>>}}

\* what batch_decode may give back
Decodings ==
    {<<>>, <<Str(<<>>)>>, <<Str(<<"x">>)>>, <<Str(<<"x">>), Str(<<"y">>)>>}

----------------------------------------------------------------------------
(* State *)

NoFrame ==
    [model_name |-> "", tokenizer |-> "", model |-> "", hit |-> FALSE, translated |-> <<>>]
NoCounts == [resolve |-> 0, tokenizer |-> 0, model |-> 0, generate |-> 0]
NoArgs == Request(PyNone, PyNone, PyNone)

\* lru_cache's key: the arguments as given
KeyOf(a) == <<a.src_lang, a.tgt_lang>>

CacheKeys == {cache[i].key : i \in 1..Len(cache)}

EntryOf(key) == cache[CHOOSE i \in 1..Len(cache) : cache[i].key = key]

Init ==
    /\ cache = <<>>
    /\ recency = <<>>
    /\ loaded = {}
    /\ fetched = {}
    /\ evicted = {}
    /\ pc = [t \in Threads |-> "idle"]
    /\ args = [t \in Threads |-> NoArgs]
    /\ frame = [t \in Threads |-> NoFrame]
    /\ counts = [t \in Threads |-> NoCounts]
    /\ result = [t \in Threads |-> NoResult]

----------------------------------------------------------------------------
(* translate_text, one caller t; the steps are cut at the external calls *)

Finish(t, r) ==
    /\ pc' = [pc EXCEPT ![t] = "idle"]
    /\ result' = [result EXCEPT ![t] = r]

\* lines 96-109: entry, and the blank-text early return
Call(t, text, src_lang, tgt_lang) ==
    /\ pc[t] = "idle"
    /\ args' = [args EXCEPT ![t] = Request(text, src_lang, tgt_lang)]
    /\ frame' = [frame EXCEPT ![t] = NoFrame]
    /\ counts' = [counts EXCEPT ![t] = NoCounts]
    /\ IF BlankText(text)
       THEN Finish(t, Returned(Str(<<>>)))
       ELSE /\ pc' = [pc EXCEPT ![t] = "load"]
            /\ result' = [result EXCEPT ![t] = NoResult]
    /\ evicted' = {}
    /\ UNCHANGED <<cache, recency, loaded, fetched>>

\* the order of last use, with key used now
Touch(key, keys) ==
    Append(SelectSeq(recency, LAMBDA k : k # key /\ k \in keys), key)

\* variant of CacheHit: the entry is returned where it stands in the table
CacheHitNoRefresh(t) ==
    LET key == KeyOf(args[t])
        e == EntryOf(key)
    IN  /\ pc[t] = "load"
        /\ key \in CacheKeys
        /\ cache' = cache
        /\ recency' = Touch(key, CacheKeys)
        /\ frame' = [frame EXCEPT ![t] =
                       [@ EXCEPT !.model = e.val.model,
                                 !.tokenizer = e.val.tokenizer,
                                 !.hit = TRUE]]
        /\ pc' = [pc EXCEPT ![t] = "tokenize"]
        /\ UNCHANGED <<loaded, fetched, evicted, args, counts, result>>

\* variant of CacheHit: the wrapped function is called although the key is found
CacheHitReload(t) ==
    /\ pc[t] = "load"
    /\ KeyOf(args[t]) \in CacheKeys
    /\ cache' = SelectSeq(cache, LAMBDA x : x.key # KeyOf(args[t]))
    /\ recency' = SelectSeq(recency, LAMBDA k : k # KeyOf(args[t]))
    /\ pc' = [pc EXCEPT ![t] = "resolve"]
    /\ UNCHANGED <<loaded, fetched, evicted, args, frame, counts, result>>

\* lru_cache, key found: the entry moves to the most-recent end and is returned
CacheHit(t) ==
    LET key == KeyOf(args[t])
        e == EntryOf(key)
    IN  /\ pc[t] = "load"
        /\ key \in CacheKeys
        /\ cache' = Append(SelectSeq(cache, LAMBDA x : x.key # key), e)
        /\ recency' = Touch(key, CacheKeys)
        /\ frame' = [frame EXCEPT ![t] =
                       [@ EXCEPT !.model = e.val.model,
                                 !.tokenizer = e.val.tokenizer,
                                 !.hit = TRUE]]
        /\ pc' = [pc EXCEPT ![t] = "tokenize"]
        /\ UNCHANGED <<loaded, fetched, evicted, args, counts, result>>

\* variant of CacheMiss: a caller waits while another one loads the same key
CacheMissLocked(t) ==
    /\ pc[t] = "load"
    /\ KeyOf(args[t]) \notin CacheKeys
    /\ \A u \in Threads \ {t} :
         ~(/\ KeyOf(args[u]) = KeyOf(args[t])
           /\ pc[u] \in {"resolve", "fetch_tokenizer", "fetch_model", "store"})
    /\ pc' = [pc EXCEPT ![t] = "resolve"]
    /\ UNCHANGED <<cache, recency, loaded, fetched, evicted, args, frame, counts, result>>

\* lru_cache, key not found: the wrapped function is called
CacheMiss(t) ==
    /\ pc[t] = "load"
    /\ KeyOf(args[t]) \notin CacheKeys
    /\ pc' = [pc EXCEPT ![t] = "resolve"]
    /\ UNCHANGED <<cache, recency, loaded, fetched, evicted, args, frame, counts, result>>

\* line 90: model_name = _get_model_name(src_lang, tgt_lang)
Resolve(t) ==
    LET r == GetModelName(args[t].src_lang, args[t].tgt_lang)
    IN  /\ pc[t] = "resolve"
        /\ counts' = [counts EXCEPT ![t].resolve = @ + 1]
        /\ IF r.kind = "raise"
           THEN /\ Finish(t, r)
                /\ UNCHANGED frame
           ELSE /\ frame' = [frame EXCEPT ![t].model_name = r.val]
                /\ pc' = [pc EXCEPT ![t] = "fetch_tokenizer"]
                /\ UNCHANGED result
        /\ UNCHANGED <<cache, recency, loaded, fetched, evicted, args>>

\* variant of FetchTokenizer: a failed fetch is tried again
FetchTokenizerRetry(t) ==
    /\ pc[t] = "fetch_tokenizer"
    /\ counts' = [counts EXCEPT ![t].tokenizer = @ + 1]
    /\ fetched' = fetched \cup {frame[t].model_name}
    /\ \E ok \in BOOLEAN :
         IF ok
         THEN /\ frame' = [frame EXCEPT ![t].tokenizer = frame[t].model_name]
              /\ pc' = [pc EXCEPT ![t] = "fetch_model"]
         ELSE UNCHANGED <<frame, pc>>
    /\ UNCHANGED <<cache, recency, loaded, evicted, args, result>>

\* line 91: tokenizer = MarianTokenizer.from_pretrained(model_name)
FetchTokenizer(t) ==
    /\ pc[t] = "fetch_tokenizer"
    /\ counts' = [counts EXCEPT ![t].tokenizer = @ + 1]
    /\ fetched' = fetched \cup {frame[t].model_name}
    /\ \E ok \in BOOLEAN :
         IF ok
         THEN /\ frame' = [frame EXCEPT ![t].tokenizer = frame[t].model_name]
              /\ pc' = [pc EXCEPT ![t] = "fetch_model"]
              /\ UNCHANGED result
         ELSE /\ Finish(t, Raised("Exception", "MarianTokenizer.from_pretrained"))
              /\ UNCHANGED frame
    /\ UNCHANGED <<cache, recency, loaded, evicted, args>>

\* line 92: model = MarianMTModel.from_pretrained(model_name)
FetchModel(t) ==
    /\ pc[t] = "fetch_model"
    /\ counts' = [counts EXCEPT ![t].model = @ + 1]
    /\ fetched' = fetched \cup {frame[t].model_name}
    /\ \E ok \in BOOLEAN :
         IF ok
         THEN /\ frame' = [frame EXCEPT ![t].model = frame[t].model_name]
              /\ pc' = [pc EXCEPT ![t] = "store"]
              /\ UNCHANGED result
         ELSE /\ Finish(t, Raised("Exception", "MarianMTModel.from_pretrained"))
              /\ UNCHANGED frame
    /\ UNCHANGED <<cache, recency, loaded, evicted, args>>

\* line 93 and lru_cache after the call: the result is stored under the key,
\* the oldest entry leaving a full table; a key stored meanwhile is left alone
CacheStore(t) ==
    LET key == KeyOf(args[t])
        e == [key |-> key,
              val |-> [model |-> frame[t].model, tokenizer |-> frame[t].tokenizer]]
        kept == IF Len(cache) >= maxsize THEN Tail(cache) ELSE cache
    IN  /\ pc[t] = "store"
        /\ IF key \in CacheKeys
           THEN UNCHANGED <<cache, recency, evicted>>
           ELSE /\ cache' = Append(kept, e)
                /\ evicted' = CacheKeys \ {kept[i].key : i \in 1..Len(kept)}
                /\ recency' = Touch(key, {kept[i].key : i \in 1..Len(kept)})
        /\ loaded' = loaded \cup
                       {<<NormalizeCode(args[t].src_lang), NormalizeCode(args[t].tgt_lang)>>}
        /\ pc' = [pc EXCEPT ![t] = "tokenize"]
        /\ UNCHANGED <<fetched, args, frame, counts, result>>

\* line 114: encoded = tokenizer([text], return_tensors="pt", padding=True)
Tokenize(t) ==
    /\ pc[t] = "tokenize"
    /\ \E ok \in BOOLEAN :
         IF ok
         THEN /\ pc' = [pc EXCEPT ![t] = "generate"]
              /\ UNCHANGED <<result, frame>>
         ELSE /\ Finish(t, Raised("Exception", "tokenizer"))
              /\ UNCHANGED frame
    /\ UNCHANGED <<cache, recency, loaded, fetched, evicted, args, counts>>

\* lines 117-122: generated_tokens = model.generate(...)
Generate(t) ==
    /\ pc[t] = "generate"
    /\ counts' = [counts EXCEPT ![t].generate = @ + 1]
    /\ \E ok \in BOOLEAN :
         IF ok
         THEN /\ pc' = [pc EXCEPT ![t] = "decode"]
              /\ UNCHANGED <<result, frame>>
         ELSE /\ Finish(t, Raised("Exception", "model.generate"))
              /\ UNCHANGED frame
    /\ UNCHANGED <<cache, recency, loaded, fetched, evicted, args>>

\* variant of FirstOrEmpty: the last decoded sequence
LastOrEmpty(translated) ==
    IF translated # <<>> THEN translated[Len(translated)] ELSE Str(<<>>)

\* line 126: translated[0] if translated else ""
FirstOrEmpty(translated) == IF translated # <<>> THEN translated[1] ELSE Str(<<>>)

\* lines 125-126: translated = tokenizer.batch_decode(...); return
Decode(t) ==
    /\ pc[t] = "decode"
    /\ \/ \E translated \in Decodings :
            /\ frame' = [frame EXCEPT ![t].translated = translated]
            /\ Finish(t, Returned(FirstOrEmpty(translated)))
       \/ /\ Finish(t, Raised("Exception", "tokenizer.batch_decode"))
          /\ UNCHANGED frame
    /\ UNCHANGED <<cache, recency, loaded, fetched, evicted, args, counts>>

Step(t, requests) ==
    \/ \E r \in requests : Call(t, r.text, r.src_lang, r.tgt_lang)
    \/ CacheHit(t)
    \/ CacheMiss(t)
    \/ Resolve(t)
    \/ FetchTokenizer(t)
    \/ FetchModel(t)
    \/ CacheStore(t)
    \/ Tokenize(t)
    \/ Generate(t)
    \/ Decode(t)

\* one caller, one call at a time, any arguments
Next == Step(MainThread, Requests)

Spec == Init /\ [][Next]_vars

\* two callers whose calls interleave, the arguments app.py passes
NextConc == \E t \in Threads : Step(t, AppRequests)

SpecConc == Init /\ [][NextConc]_vars

----------------------------------------------------------------------------
(* Properties of translator.py *)

\* the raw arguments that denote "en" and "hi", written out
AcceptedEn == {en, Str(<<" ", "E", "N">>)}
AcceptedHi == {hi, Str(<<"H", "i", " ">>), Str(<<"\t", "H", "I">>)}
Accepted == AcceptedEn \cup AcceptedHi

EnHi == "Helsinki-NLP/opus-mt-en-hi"
HiEn == "Helsinki-NLP/opus-mt-hi-en"

SameLanguage(a, b) ==
    \/ a \in AcceptedEn /\ b \in AcceptedEn
    \/ a \in AcceptedHi /\ b \in AcceptedHi

ValidDirection(a, b) == a \in Accepted /\ b \in Accepted /\ ~SameLanguage(a, b)

\* the identifier of a valid direction
ExpectedName(a, b) == IF a \in AcceptedEn THEN EnHi ELSE HiEn

\* caller t has finished a call that was given a non-blank text
FinishedNonBlank(t) ==
    pc[t] = "idle" /\ result[t].kind # "none" /\ args[t].text = SomeText

\* C1: a call with non-blank text whose normalized (source, target) pair an
\* earlier call has already loaded and stored is a cache hit: it never takes
\* the miss path, so the pair is loaded at most once.
C1_SamePairLoadedOnce ==
    \A t \in Threads :
        pc[t] = "resolve" =>
            <<NormalizeCode(args[t].src_lang), NormalizeCode(args[t].tgt_lang)>> \notin loaded

\* C2: a call whose text is None, empty or only whitespace returns "" at once,
\* whatever the languages and the cache: it makes no lookup, no resolution and
\* no fetch, and leaves the cache's entries and their order as they were.
C2_BlankReturnsEmpty ==
    [][\A t \in Threads :
         (pc[t] = "idle" /\ args'[t].text \in BlankTexts
            /\ <<args[t], result[t], frame[t], counts[t]>>
                 # <<args'[t], result'[t], frame'[t], counts'[t]>>)
         => /\ pc'[t] = "idle"
            /\ result'[t] = Returned(Str(<<>>))
            /\ counts'[t] = NoCounts
            /\ ~frame'[t].hit
            /\ UNCHANGED <<cache, recency, loaded, fetched>>]_vars

C2_Witness ==
    /\ pc[MainThread] = "idle"
    /\ args[MainThread] = Request(Str(<<" ", "\t">>), Str(<<"f", "r">>), hi)
    /\ result[MainThread] = Returned(Str(<<>>))
    /\ Len(cache) = 2

\* C3: _normalize_lang accepts exactly the raw strings that trim and lowercase
\* to "en" or "hi" and returns that code; every other one (empty and None
\* too) raises the unsupported-language ValueError, and a call with non-blank
\* text and such a source or target ends in that error before any fetch.
C3_ValidatorAcceptsExactlyEnHi ==
    /\ \A lang \in RawLangs \cup {en} :
         NormalizeLang(lang) =
            IF lang \in AcceptedEn THEN Returned(en)
            ELSE IF lang \in AcceptedHi THEN Returned(hi)
            ELSE UnsupportedError
    /\ \A t \in Threads :
         /\ (FinishedNonBlank(t)
               /\ (args[t].src_lang \notin Accepted \/ args[t].tgt_lang \notin Accepted))
            => result[t] = UnsupportedError
         /\ pc[t] \notin {"idle", "load", "resolve"}
            => args[t].src_lang \in Accepted /\ args[t].tgt_lang \in Accepted

C3_Witness ==
    /\ FinishedNonBlank(MainThread)
    /\ args[MainThread].src_lang = Str(<<" ", "E", "N">>)
    /\ args[MainThread].tgt_lang = PyNone
    /\ result[MainThread] = UnsupportedError
    /\ cache # <<>>

\* C4: a call with non-blank text ends in the identical-languages ValueError
\* exactly when both codes are supported and normalize to the same code; that
\* error differs from the unsupported-language one, which takes precedence
\* when a code is unsupported (also when the raw strings are equal).
C4_IdenticalLanguagesRejected ==
    /\ IdenticalError # UnsupportedError
    /\ \A s \in RawLangs, g \in RawLangs :
         (GetModelName(s, g) = IdenticalError) <=> SameLanguage(s, g)
    /\ \A t \in Threads :
         FinishedNonBlank(t) =>
            ((result[t] = IdenticalError)
               <=> SameLanguage(args[t].src_lang, args[t].tgt_lang))

C4_Witness ==
    /\ FinishedNonBlank(MainThread)
    /\ result[MainThread] = IdenticalError
    /\ args[MainThread].src_lang # args[MainThread].tgt_lang
    /\ counts[MainThread].tokenizer = 0

\* C5: the cache never holds more than four entries, its entries stand in the
\* order of their last use (a hit counts as a use), and an entry leaves it
\* only when a new key is stored into a full cache, the one leaving being the
\* least recently used of the cached keys.
C5_BoundedLRU ==
    [][/\ Len(cache') <= 4
       /\ [i \in 1..Len(cache') |-> cache'[i].key] = recency'
       /\ \A k \in CacheKeys :
            k \notin CacheKeys' =>
               /\ Len(cache) = 4
               /\ Len(cache') = 4
               /\ k = Head(recency)
               /\ CacheKeys' \ CacheKeys # {}]_vars

C5_Witness ==
    /\ Len(cache) = 4
    /\ evicted # {}
    /\ pc[MainThread] = "tokenize"

\* C6: when the key of a call is in the cache, the call gets the cached
\* model and tokenizer without resolving a model name and without fetching a
\* tokenizer or a model, and the set of cached entries stays the same.
C6_HitReturnsEntry ==
    [][\A t \in Threads :
         /\ frame'[t].hit =>
               /\ counts'[t].resolve = 0
               /\ counts'[t].tokenizer = 0
               /\ counts'[t].model = 0
         /\ (pc[t] = "load" /\ pc'[t] # "load" /\ KeyOf(args[t]) \in CacheKeys)
            => /\ pc'[t] = "tokenize"
               /\ frame'[t].hit
               /\ frame'[t].model = EntryOf(KeyOf(args[t])).val.model
               /\ frame'[t].tokenizer = EntryOf(KeyOf(args[t])).val.tokenizer
               /\ {cache'[i] : i \in 1..Len(cache')} = {cache[i] : i \in 1..Len(cache)}
               /\ UNCHANGED <<fetched, counts>>]_vars

C6_Witness ==
    /\ pc[MainThread] = "idle"
    /\ frame[MainThread].hit
    /\ result[MainThread] = Returned(Str(<<"x">>))
    /\ counts[MainThread] = [NoCounts EXCEPT !.generate = 1]
    /\ Len(cache) = 3

\* C7: one call fetches the tokenizer at most once, fetches the model at most
\* once and calls generate at most once; an exception of from_pretrained, of
\* the tokenizer, of generate or of batch_decode ends the call with that
\* exception and no value, nothing being tried again.
C7_NoRetries ==
    \A t \in Threads :
        /\ counts[t].resolve <= 1
        /\ counts[t].tokenizer <= 1
        /\ counts[t].model <= 1
        /\ counts[t].generate <= 1
        /\ result[t].kind = "raise" => pc[t] = "idle" /\ result[t].val = PyNone
        /\ result[t].msg = "MarianTokenizer.from_pretrained"
           => counts[t].tokenizer = 1 /\ counts[t].model = 0 /\ counts[t].generate = 0
        /\ result[t].msg = "MarianMTModel.from_pretrained"
           => counts[t].tokenizer = 1 /\ counts[t].model = 1 /\ counts[t].generate = 0
        /\ result[t].msg = "tokenizer" => counts[t].generate = 0
        /\ result[t].msg \in {"model.generate", "tokenizer.batch_decode"}
           => counts[t].generate = 1

C7_Witness ==
    /\ pc[MainThread] = "idle"
    /\ result[MainThread] = Raised("Exception", "MarianMTModel.from_pretrained")
    /\ counts[MainThread].tokenizer = 1
    /\ counts[MainThread].model = 1

\* C8 as stated: a finished call with a non-empty text and a valid direction
\* has returned a non-empty string.
C8_NonEmptyResult ==
    \A t \in Threads :
        (/\ pc[t] = "idle"
         /\ result[t].kind # "none"
         /\ args[t].text.tag = "str"
         /\ args[t].text.s # <<>>
         /\ ValidDirection(args[t].src_lang, args[t].tgt_lang))
        => result[t].kind = "return" /\ result[t].val.s # <<>>

\* C8, amended: a call with a non-blank text that returns was given a valid
\* direction and returns the first sequence batch_decode gave, or "" when it
\* gave none; so the result is non-empty exactly when there is a first
\* decoded sequence and it is non-empty.
C8_ReturnsFirstDecoded ==
    \A t \in Threads :
        (FinishedNonBlank(t) /\ result[t].kind = "return") =>
            /\ ValidDirection(args[t].src_lang, args[t].tgt_lang)
            /\ counts[t].generate = 1
            /\ result[t].val =
                 IF Len(frame[t].translated) = 0 THEN Str(<<>>) ELSE frame[t].translated[1]

C8_Witness ==
    /\ FinishedNonBlank(MainThread)
    /\ frame[MainThread].translated = <<Str(<<"x">>), Str(<<"y">>)>>
    /\ result[MainThread] = Returned(Str(<<"x">>))

\* C9: every identifier ever fetched is opus-mt-en-hi or opus-mt-hi-en, the
\* one of the call's normalized codes; every cache entry is stored under
\* arguments that denote a valid direction and holds the model and tokenizer
\* of that direction; a call rejected for its codes has fetched nothing and
\* its key is not in the cache.
C9_OnlyValidPairsFetched ==
    /\ fetched \subseteq {EnHi, HiEn}
    /\ \A i \in 1..Len(cache) :
         /\ ValidDirection(cache[i].key[1], cache[i].key[2])
         /\ cache[i].val.model = ExpectedName(cache[i].key[1], cache[i].key[2])
         /\ cache[i].val.tokenizer = ExpectedName(cache[i].key[1], cache[i].key[2])
    /\ \A t \in Threads :
         /\ pc[t] \in {"fetch_tokenizer", "fetch_model", "store"}
            => /\ ValidDirection(args[t].src_lang, args[t].tgt_lang)
               /\ frame[t].model_name = ExpectedName(args[t].src_lang, args[t].tgt_lang)
         /\ result[t] \in {UnsupportedError, IdenticalError}
            => /\ counts[t].tokenizer = 0
               /\ counts[t].model = 0
               /\ KeyOf(args[t]) \notin CacheKeys

C9_Witness ==
    /\ fetched = {EnHi, HiEn}
    /\ Len(cache) = 4
    /\ result[MainThread] = IdenticalError
    /\ \E i \in 1..Len(cache) : cache[i].key[1] \notin {en, hi}

\* C10: nothing makes a caller wait for another caller's load of the same
\* pair: a caller whose key is not cached can always take the miss path, and
\* a caller on it can always go on to fetch the tokenizer and the model, so
\* two callers can each fetch for one pair.
C10_NoMissGuard ==
    \A t \in Threads :
        /\ (pc[t] = "load" /\ KeyOf(args[t]) \notin CacheKeys) => ENABLED CacheMiss(t)
        /\ pc[t] = "fetch_tokenizer" => ENABLED FetchTokenizer(t)
        /\ pc[t] = "fetch_model" => ENABLED FetchModel(t)

C10_Witness ==
    /\ KeyOf(args["t1"]) = KeyOf(args["t2"])
    /\ \A t \in Threads :
         /\ pc[t] = "store"
         /\ ~frame[t].hit
         /\ counts[t].tokenizer = 1
         /\ counts[t].model = 1
    /\ cache = <<>>

====
